---- MODULE Spec2Model ----
(***************************************************************************)
(* The expression accumulator of the calculator component                 *)
(* (src/src/renderer/src/components/calculator.tsx): the React state       *)
(* display / equation / error / isNewNumber / memory / showMemory and the  *)
(* handlers that the keypad buttons and the keydown listener run.          *)
(*                                                                         *)
(* Strings that the handlers take apart (display, equation) are sequences  *)
(* of one-character strings; the error message is an atomic string.        *)
(* A JavaScript number is a record [k, s, n, d]: k = "fin" is the value    *)
(* s * n / d (s in {1,-1}, n >= 0, d > 0, in lowest terms; n = 0 with      *)
(* s = -1 is the negative zero), k = "inf" is s * Infinity and k = "nan"   *)
(* is NaN.  Finite arithmetic is exact: the model does not round to 53     *)
(* bits, and every value it computes stays far inside that precision.      *)
(***************************************************************************)
EXTENDS Integers, Sequences, FiniteSets, TLC

\* ------------------------------------------------------------------------
\* Program constants
\* ------------------------------------------------------------------------

\* const MAX_DIGITS = 16
MAX_DIGITS == 16

\* const MAX_VALUE = 1e308 and MIN_VALUE = -1e308, kept as the decimal
\* exponent: a finite x satisfies MIN_VALUE < x < MAX_VALUE iff the integer
\* part of |x| has at most 308 digits.
MAX_VALUE_EXP == 308

\* formatNumber switches to exponent notation from 1e16 on and below 1e-7,
\* and prints 10 (exponent notation) or at most 8 (plain) fraction digits.
EXP_FROM_DIGITS == 16
EXP_BELOW_DIGITS == 7
EXP_FRACTION == 10
MAX_FRACTION == 8

\* ------------------------------------------------------------------------
\* Characters and strings
\* ------------------------------------------------------------------------

DigitChars == <<"0", "1", "2", "3", "4", "5", "6", "7", "8", "9">>

DigitSet == {DigitChars[i] : i \in 1..10}

DigitVal(c) == (CHOOSE i \in 1..10 : DigitChars[i] = c) - 1

DigitChar(v) == DigitChars[v + 1]

\* s.includes(c)
Includes(s, c) == \E i \in 1..Len(s) : s[i] = c

\* the number of occurrences of c in s: (s.match(/c/g) || []).length
Count(s, c) == Cardinality({i \in 1..Len(s) : s[i] = c})

\* s.replace(/[,.]/g, '')
StripSeparators(s) == SelectSeq(s, LAMBDA c : c \notin {",", "."})

\* s.slice(0, -1)
DropLast(s) == SubSeq(s, 1, Len(s) - 1)

\* s.slice(i) for a 1-based position i
From(s, i) == SubSeq(s, i, Len(s))

\* the length of the longest prefix of s made of characters of set
RECURSIVE PrefixLen(_, _)
PrefixLen(s, set) ==
  IF s = <<>> \/ Head(s) \notin set THEN 0 ELSE 1 + PrefixLen(Tail(s), set)

\* the decimal digits of a natural number, most significant first
RECURSIVE NatDigits(_)
NatDigits(v) ==
  IF v < 10 THEN <<DigitChar(v)>> ELSE Append(NatDigits(v \div 10), DigitChar(v % 10))

\* the natural number a digit string denotes (0 for the empty string)
RECURSIVE DigitsNat(_)
DigitsNat(s) ==
  IF s = <<>> THEN 0 ELSE DigitsNat(DropLast(s)) * 10 + DigitVal(s[Len(s)])

RECURSIVE Pow10(_)
Pow10(e) == IF e = 0 THEN 1 ELSE 10 * Pow10(e - 1)

RECURSIVE Zeros(_)
Zeros(k) == IF k <= 0 THEN <<>> ELSE <<"0">> \o Zeros(k - 1)

RECURSIVE StripTrailingZeros(_)
StripTrailingZeros(s) ==
  IF s # <<>> /\ s[Len(s)] = "0" THEN StripTrailingZeros(DropLast(s)) ELSE s

RECURSIVE StripLeadingZeros(_)
StripLeadingZeros(s) ==
  IF s # <<>> /\ Head(s) = "0" THEN StripLeadingZeros(Tail(s)) ELSE s

\* ------------------------------------------------------------------------
\* JavaScript numbers
\* ------------------------------------------------------------------------

RECURSIVE GCD(_, _)
GCD(a, b) == IF b = 0 THEN a ELSE GCD(b, a % b)

Fin(s, n, d) ==
  LET g == GCD(n, d) IN [k |-> "fin", s |-> s, n |-> n \div g, d |-> d \div g]

NaN == [k |-> "nan", s |-> 1, n |-> 0, d |-> 1]

Infinity(s) == [k |-> "inf", s |-> s, n |-> 0, d |-> 1]

Zero == Fin(1, 0, 1)

Int2Num(i) == IF i < 0 THEN Fin(-1, -i, 1) ELSE Fin(1, i, 1)

IsZero(x) == x.k = "fin" /\ x.n = 0

\* -x
Neg(x) == IF x.k = "nan" THEN x ELSE [x EXCEPT !.s = -x.s]

\* x + y
Add(x, y) ==
  IF x.k = "nan" \/ y.k = "nan" THEN NaN
  ELSE IF x.k = "inf" /\ y.k = "inf" THEN (IF x.s = y.s THEN x ELSE NaN)
  ELSE IF x.k = "inf" THEN x
  ELSE IF y.k = "inf" THEN y
  ELSE LET v == x.s * x.n * y.d + y.s * y.n * x.d
       IN  IF v = 0 THEN Fin(IF x.s = -1 /\ y.s = -1 THEN -1 ELSE 1, 0, 1)
           ELSE IF v < 0 THEN Fin(-1, -v, x.d * y.d)
           ELSE Fin(1, v, x.d * y.d)

\* x - y
Sub(x, y) == Add(x, Neg(y))

\* x * y
Mul(x, y) ==
  IF x.k = "nan" \/ y.k = "nan" THEN NaN
  ELSE IF x.k = "inf" \/ y.k = "inf"
       THEN (IF IsZero(x) \/ IsZero(y) THEN NaN ELSE Infinity(x.s * y.s))
  ELSE Fin(x.s * y.s, x.n * y.n, x.d * y.d)

\* x / y
Div(x, y) ==
  IF x.k = "nan" \/ y.k = "nan" THEN NaN
  ELSE IF x.k = "inf" THEN (IF y.k = "inf" THEN NaN ELSE Infinity(x.s * y.s))
  ELSE IF y.k = "inf" THEN Fin(x.s * y.s, 0, 1)
  ELSE IF y.n = 0 THEN (IF x.n = 0 THEN NaN ELSE Infinity(x.s * y.s))
  ELSE Fin(x.s * y.s, x.n * y.d, x.d * y.n)

Hundred == Fin(1, 100, 1)

\* the number of digits of the integer part of |x| (1 when it is 0)
IntDigits(x) == Len(NatDigits(x.n \div x.d))

\* |x| >= 10^e, for a finite x and e >= 0
AtLeastPow10(x, e) == IntDigits(x) > e

\* 0 < |x| < 10^(-e), for a finite x and e >= 0
BelowNegPow10(x, e) == x.n # 0 /\ x.n <= (x.d - 1) \div Pow10(e)

\* isValidNumber(num)
isValidNumber(num) ==
  /\ num.k # "nan"
  /\ num.k = "fin"
  /\ ~AtLeastPow10(num, MAX_VALUE_EXP)

\* ------------------------------------------------------------------------
\* Number formatting
\* ------------------------------------------------------------------------

\* k digits of the long division r / d (r < d), and the remainder left
RECURSIVE LongDiv(_, _, _)
LongDiv(r, d, k) ==
  IF k = 0 THEN [digits |-> <<>>, rem |-> r]
  ELSE LET rest == LongDiv((r * 10) % d, d, k - 1)
       IN  [digits |-> <<DigitChar((r * 10) \div d)>> \o rest.digits, rem |-> rest.rem]

\* a digit string plus one
RECURSIVE IncDigits(_)
IncDigits(s) ==
  IF s = <<>> THEN <<"1">>
  ELSE IF s[Len(s)] = "9" THEN Append(IncDigits(DropLast(s)), "0")
  ELSE Append(DropLast(s), DigitChar(DigitVal(s[Len(s)]) + 1))

\* useGrouping: a comma before every group of three integer digits
RECURSIVE Grouped(_)
Grouped(s) ==
  IF Len(s) <= 3 THEN s
  ELSE Grouped(SubSeq(s, 1, Len(s) - 3)) \o <<",">> \o SubSeq(s, Len(s) - 2, Len(s))

\* num.toLocaleString('en-US', {maximumFractionDigits: 8, useGrouping: true}):
\* rounded half away from zero to 8 fraction digits, trailing zeros dropped.
\* (The infinity sign U+221E is written "oo".)
toLocaleString(num) ==
  IF num.k = "nan" THEN <<"N", "a", "N">>
  ELSE IF num.k = "inf" THEN (IF num.s = -1 THEN <<"-">> ELSE <<>>) \o <<"oo">>
  ELSE LET ip    == NatDigits(num.n \div num.d)
           ld    == LongDiv(num.n % num.d, num.d, MAX_FRACTION)
           all   == ip \o ld.digits
           round == IF 2 * ld.rem >= num.d THEN IncDigits(all) ELSE all
           int   == SubSeq(round, 1, Len(round) - MAX_FRACTION)
           frac  == StripTrailingZeros(SubSeq(round, Len(round) - MAX_FRACTION + 1, Len(round)))
       IN  (IF num.s = -1 THEN <<"-">> ELSE <<>>)
           \o Grouped(int)
           \o (IF frac = <<>> THEN <<>> ELSE <<".">> \o frac)

\* the n / d of a non-zero value scaled into [1, 10), with its decimal exponent
RECURSIVE Scaled(_, _, _)
Scaled(n, d, e) ==
  IF n < d THEN Scaled(n * 10, d, e - 1)
  ELSE IF n >= 10 * d THEN Scaled(n, d * 10, e + 1)
  ELSE [n |-> n, d |-> d, e |-> e]

\* num.toExponential(fd): one digit, fd fraction digits, rounded half up
toExponential(num, fd) ==
  IF num.k = "nan" THEN <<"N", "a", "N">>
  ELSE IF num.k = "inf"
       THEN (IF num.s = -1 THEN <<"-">> ELSE <<>>)
            \o <<"I", "n", "f", "i", "n", "i", "t", "y">>
  ELSE IF num.n = 0 THEN <<"0", ".">> \o Zeros(fd) \o <<"e", "+", "0">>
  ELSE LET sc    == Scaled(num.n, num.d, 0)
           ld    == LongDiv(sc.n % sc.d, sc.d, fd)
           all   == <<DigitChar(sc.n \div sc.d)>> \o ld.digits
           round == IF 2 * ld.rem >= sc.d THEN IncDigits(all) ELSE all
           over  == Len(round) > fd + 1
           mant  == IF over THEN DropLast(round) ELSE round
           e     == IF over THEN sc.e + 1 ELSE sc.e
       IN  (IF num.s = -1 THEN <<"-">> ELSE <<>>)
           \o <<Head(mant), ".">> \o Tail(mant)
           \o <<"e", IF e < 0 THEN "-" ELSE "+">>
           \o NatDigits(IF e < 0 THEN -e ELSE e)

\* formatNumber(num)
formatNumber(num) ==
  IF \/ num.k = "inf"
     \/ num.k = "fin" /\ AtLeastPow10(num, EXP_FROM_DIGITS)
     \/ num.k = "fin" /\ BelowNegPow10(num, EXP_BELOW_DIGITS)
  THEN toExponential(num, EXP_FRACTION)
  ELSE toLocaleString(num)

\* ------------------------------------------------------------------------
\* parseFloat
\* ------------------------------------------------------------------------

InfinityChars == <<"I", "n", "f", "i", "n", "i", "t", "y">>

\* parseFloat(str): leading blanks, a sign, then the longest decimal literal
\* (digits, a point, digits) or Infinity; NaN when there is none.  The
\* exponent part of a literal (e-8) is not modelled: a string that has one is
\* read only under Plain below.
parseFloat(str) ==
  LET s1  == From(str, PrefixLen(str, {" "}) + 1)
      neg == s1 # <<>> /\ Head(s1) = "-"
      s2  == IF s1 # <<>> /\ Head(s1) \in {"-", "+"} THEN Tail(s1) ELSE s1
      sg  == IF neg THEN -1 ELSE 1
      il  == PrefixLen(s2, DigitSet)
      s3  == From(s2, il + 1)
      dot == s3 # <<>> /\ Head(s3) = "."
      fl  == IF dot THEN PrefixLen(Tail(s3), DigitSet) ELSE 0
      ic  == StripLeadingZeros(SubSeq(s2, 1, il))
      fc  == StripTrailingZeros(SubSeq(s3, 2, fl + 1))
  IN  IF Len(s2) >= 8 /\ SubSeq(s2, 1, 8) = InfinityChars THEN Infinity(sg)
      ELSE IF il = 0 /\ fl = 0 THEN NaN
      ELSE Fin(sg, DigitsNat(ic \o fc), Pow10(Len(fc)))

\* ------------------------------------------------------------------------
\* math.evaluate: the external evaluator (mathjs), for the expressions the
\* accumulator can build from numerals, + - * / ( ) = and the comma of a
\* formatted result.  Error messages are modelled without their "(char n)".
\* ------------------------------------------------------------------------

OpChars == {"+", "-", "*", "/", "(", ")", "=", ","}

NumTok(v) == [t |-> "num", c |-> "", v |-> v]

OpTok(c) == [t |-> "op", c |-> c, v |-> Zero]

\* the numeral at the head of s: digits, then a decimal mark (a point not
\* followed by / or *) and digits
NumeralLen(s) ==
  LET il  == PrefixLen(s, DigitSet)
      r   == From(s, il + 1)
      dot == /\ r # <<>>
             /\ Head(r) = "."
             /\ ~(Len(r) >= 2 /\ r[2] \in {"/", "*"})
  IN  IF dot THEN il + 1 + PrefixLen(Tail(r), DigitSet) ELSE il

\* the tokens of an expression; blanks separate them
RECURSIVE Tokens(_)
Tokens(s) ==
  IF s = <<>> THEN <<>>
  ELSE IF Head(s) = " " THEN Tokens(Tail(s))
  ELSE IF Head(s) \in DigitSet
       THEN LET l == NumeralLen(s)
            IN  <<NumTok(parseFloat(SubSeq(s, 1, l)))>> \o Tokens(From(s, l + 1))
  ELSE <<OpTok(Head(s))>> \o Tokens(Tail(s))

Parsed(v, kind, rest) == [ok |-> TRUE, v |-> v, kind |-> kind, rest |-> rest, msg |-> ""]

Failed(msg) == [ok |-> FALSE, v |-> NaN, kind |-> "", rest |-> <<>>, msg |-> msg]

IsOp(toks, c) == toks # <<>> /\ Head(toks).t = "op" /\ Head(toks).c = c

IsNum(toks) == toks # <<>> /\ Head(toks).t = "num"

\* parseEnd: no value where one is needed
parseEnd(toks) ==
  IF toks = <<>> THEN Failed("Unexpected end of expression") ELSE Failed("Value expected")

\* the node a rule without a left operand is given
NoNode == Failed("")

\* the recursive descent of mathjs, one rule per case; toks are the tokens
\* ahead, node the left operand of a loop, lastKind the kind of its last
\* factor
RECURSIVE parse(_, _, _, _)
parse(rule, toks, node, lastKind) ==
  CASE rule = "parseParentheses" ->
         \* parseNumber, then parseParentheses: ( expression )
         IF IsNum(toks) THEN Parsed(Head(toks).v, "const", Tail(toks))
         ELSE IF IsOp(toks, "(")
              THEN LET r == parse("parseAssignment", Tail(toks), NoNode, "")
                   IN  IF ~r.ok THEN r
                       ELSE IF ~IsOp(r.rest, ")") THEN Failed("Parenthesis ) expected")
                       ELSE Parsed(r.v, "paren", Tail(r.rest))
         ELSE parseEnd(toks)
    [] rule = "parseUnary" ->
         \* - and + before a value
         IF IsOp(toks, "-") \/ IsOp(toks, "+")
         THEN LET r == parse("parseUnary", Tail(toks), NoNode, "")
              IN  IF ~r.ok THEN r
                  ELSE Parsed(IF Head(toks).c = "-" THEN Neg(r.v) ELSE r.v,
                              IF r.kind = "const" THEN "unaryconst" ELSE "op",
                              r.rest)
         ELSE parse("parseParentheses", toks, NoNode, "")
    [] rule = "parseRule2" ->
         \* in "number / number (", the division binds before the implicit
         \* multiplication
         LET r == parse("parseUnary", toks, NoNode, "")
         IN  IF /\ r.ok
                /\ r.kind \in {"const", "unaryconst"}
                /\ IsOp(r.rest, "/")
                /\ IsNum(Tail(r.rest))
                /\ IsOp(Tail(Tail(r.rest)), "(")
             THEN Parsed(Div(r.v, r.rest[2].v), "op", Tail(Tail(r.rest)))
             ELSE r
    [] rule = "parseImplicitMultiplication" ->
         LET r == parse("parseRule2", toks, NoNode, "")
         IN  IF ~r.ok THEN r ELSE parse("ImplicitLoop", r.rest, r, r.kind)
    [] rule = "ImplicitLoop" ->
         \* the loop of parseImplicitMultiplication: a parenthesis may follow
         \* any factor, a number only a parenthesis
         IF \/ IsOp(toks, "(")
            \/ IsNum(toks) /\ lastKind = "paren"
         THEN LET factor == parse("parseRule2", toks, NoNode, "")
              IN  IF ~factor.ok THEN factor
                  ELSE parse("ImplicitLoop", factor.rest,
                             Parsed(Mul(node.v, factor.v), "op", factor.rest),
                             factor.kind)
         ELSE node
    [] rule = "parseMultiplyDivide" ->
         LET r == parse("parseImplicitMultiplication", toks, NoNode, "")
         IN  IF ~r.ok THEN r ELSE parse("MultiplyDivideLoop", r.rest, r, "")
    [] rule = "MultiplyDivideLoop" ->
         IF IsOp(toks, "*") \/ IsOp(toks, "/")
         THEN LET right == parse("parseImplicitMultiplication", Tail(toks), NoNode, "")
              IN  IF ~right.ok THEN right
                  ELSE parse("MultiplyDivideLoop", right.rest,
                             Parsed(IF Head(toks).c = "*" THEN Mul(node.v, right.v)
                                                          ELSE Div(node.v, right.v),
                                    "op", right.rest),
                             "")
         ELSE node
    [] rule = "parseAddSubtract" ->
         LET r == parse("parseMultiplyDivide", toks, NoNode, "")
         IN  IF ~r.ok THEN r ELSE parse("AddSubtractLoop", r.rest, r, "")
    [] rule = "AddSubtractLoop" ->
         IF IsOp(toks, "+") \/ IsOp(toks, "-")
         THEN LET right == parse("parseMultiplyDivide", Tail(toks), NoNode, "")
              IN  IF ~right.ok THEN right
                  ELSE parse("AddSubtractLoop", right.rest,
                             Parsed(IF Head(toks).c = "+" THEN Add(node.v, right.v)
                                                          ELSE Sub(node.v, right.v),
                                    "op", right.rest),
                             "")
         ELSE node
    [] OTHER ->
         \* parseAssignment: "=" after anything but a symbol is an error
         LET r == parse("parseAddSubtract", toks, NoNode, "")
         IN  IF r.ok /\ IsOp(r.rest, "=")
             THEN Failed("Invalid left hand side of assignment operator =")
             ELSE r

\* the end of parseStart: tokens left over are an error
parseStart(r) ==
  IF ~r.ok THEN r
  ELSE IF r.rest = <<>> THEN r
  ELSE IF Head(r.rest).t = "num" THEN Failed("Unexpected part")
  ELSE Failed("Unexpected operator")

\* math.evaluate(expr): [ok, v] or, when mathjs throws, [ok = FALSE, msg]
mathEvaluate(expr) == parseStart(parse("parseAssignment", Tokens(expr), NoNode, ""))

\* ------------------------------------------------------------------------
\* State
\* ------------------------------------------------------------------------

VARIABLES
  display,         \* useState<string>('0')
  equation,        \* useState<string>('')
  error,           \* useState<string>('')
  isNewNumber,     \* useState<boolean>(true)
  memory,          \* useState<number>(0)
  showMemory,      \* useState<boolean>(false)
  keyIsNewNumber,  \* the isNewNumber that the registered keydown listener closes over
  evaluated,       \* history: the expression this step handed to math.evaluate, or <<>>
  last,            \* history: the event of this step, [ev, arg, via, took]
  entered          \* history: the keys pressed since start-up or clear

state == <<display, equation, error, isNewNumber, memory, showMemory>>

vars == <<display, equation, error, isNewNumber, memory, showMemory,
          keyIsNewNumber, evaluated, last, entered>>

\* the event ev, of key arg, by button or keyboard; took: it changed the state
Event(ev, arg, via, took) == [ev |-> ev, arg |-> arg, via |-> via, took |-> took]

\* entered once the keys are no longer followed: after a key other than a
\* number, an operator or =, after =, and after a key that changed nothing
Untracked == <<"?">>

Track(keys) ==
  IF entered = Untracked \/ Includes(entered, "=") \/ ~last.took THEN Untracked
  ELSE entered \o keys

\* the history of a step: the event ev (of key arg, by button or keyboard)
Record(ev, arg, via) ==
  /\ last' = Event(ev, arg, via, state' # state)
  /\ entered' = (CASE ev = "clear" -> <<>>
                  [] ev \in {"number", "operator"} -> Track(arg)
                  [] ev = "equal" -> Track(<<"=">>)
                  [] OTHER -> Untracked)

\* ------------------------------------------------------------------------
\* Handlers.  Each is the whole state transition of one call; a handler that
\* reads isNewNumber takes the value its closure holds as a parameter.
\* ------------------------------------------------------------------------

\* handleNumber without the return on a second point
handleNumberAnyPoint(number, closureIsNewNumber) ==
  /\ error' = ""
  /\ IF Len(StripSeparators(display)) >= MAX_DIGITS
     THEN UNCHANGED <<display, isNewNumber>>
     ELSE IF closureIsNewNumber
     THEN /\ display' = (IF number = <<".">> THEN <<"0", ".">> ELSE number)
          /\ isNewNumber' = FALSE
     ELSE /\ display' = display \o number
          /\ UNCHANGED isNewNumber
  /\ UNCHANGED <<equation, memory, showMemory>>
  /\ evaluated' = <<>>

\* handleNumber(number)
handleNumber(number, closureIsNewNumber) ==
  /\ error' = ""
  /\ IF Len(StripSeparators(display)) >= MAX_DIGITS
     THEN UNCHANGED <<display, isNewNumber>>
     ELSE IF number = <<".">> /\ Includes(display, ".")
     THEN UNCHANGED <<display, isNewNumber>>
     ELSE IF closureIsNewNumber
     THEN /\ display' = (IF number = <<".">> THEN <<"0", ".">> ELSE number)
          /\ isNewNumber' = FALSE
     ELSE /\ display' = display \o number
          /\ UNCHANGED isNewNumber
  /\ UNCHANGED <<equation, memory, showMemory>>
  /\ evaluated' = <<>>

\* handleOperator with the first branch only: the equation so far is dropped
handleOperatorFirstOnly(operator) ==
  /\ error' = ""
  /\ equation' = display \o <<" ">> \o operator \o <<" ">>
  /\ isNewNumber' = TRUE
  /\ UNCHANGED <<display, memory, showMemory>>
  /\ evaluated' = <<>>

\* handleOperator(operator)
handleOperator(operator) ==
  /\ error' = ""
  /\ equation' = (IF equation = <<>>
                  THEN display \o <<" ">> \o operator \o <<" ">>
                  ELSE equation \o display \o <<" ">> \o operator \o <<" ">>)
  /\ isNewNumber' = TRUE
  /\ UNCHANGED <<display, memory, showMemory>>
  /\ evaluated' = <<>>

\* equation.split(' ')[0]
FirstField(s) == SubSeq(s, 1, PrefixLen(s, {s[i] : i \in 1..Len(s)} \ {" "}))

\* the value handlePercent displays
PercentResult ==
  LET currentValue == parseFloat(display)
  IN  IF equation = <<>>
      THEN Div(currentValue, Hundred)
      ELSE Div(Mul(parseFloat(FirstField(equation)), currentValue), Hundred)

\* handlePercent()
handlePercent ==
  /\ display' = formatNumber(PercentResult)
  /\ UNCHANGED <<equation, error, isNewNumber, memory, showMemory>>
  /\ evaluated' = <<>>

\* /[+\-*/]{2,}/.test(s)
DoubledOperator(s) ==
  \E i \in 1..(Len(s) - 1) :
    s[i] \in {"+", "-", "*", "/"} /\ s[i + 1] \in {"+", "-", "*", "/"}

\* the check of the result with a test for NaN alone
InRangeNaNOnly(result) ==
  IF ~result.ok THEN result
  ELSE IF result.v.k = "nan" THEN Failed("Result out of range")
  ELSE result

\* if (!isValidNumber(result)) throw new Error('Result out of range'), for
\* the outcome of math.evaluate
InRange(result) ==
  IF ~result.ok THEN result
  ELSE IF ~isValidNumber(result.v) THEN Failed("Result out of range")
  ELSE result

\* the try block of handleEqual without the check of isValidNumber
CalculationUnchecked(fullExpression) ==
  IF Count(fullExpression, "(") # Count(fullExpression, ")")
  THEN Failed("Mismatched parentheses")
  ELSE IF DoubledOperator(fullExpression)
  THEN Failed("Invalid operator sequence")
  ELSE mathEvaluate(fullExpression)

\* the outcome of the try block of handleEqual on fullExpression:
\* [ok, v] or the message of the Error thrown
Calculation(fullExpression) ==
  IF Count(fullExpression, "(") # Count(fullExpression, ")")
  THEN Failed("Mismatched parentheses")
  ELSE IF DoubledOperator(fullExpression)
  THEN Failed("Invalid operator sequence")
  ELSE InRange(mathEvaluate(fullExpression))

\* whether handleEqual on fullExpression reaches the call of math.evaluate
CallsEvaluator(fullExpression) ==
  /\ Count(fullExpression, "(") = Count(fullExpression, ")")
  /\ ~DoubledOperator(fullExpression)

\* the end of the try block without setIsNewNumber(true)
handleEqualResultKeepsMode(fullExpression, result) ==
  /\ equation' = fullExpression \o <<" ", "=", " ">>
  /\ display' = formatNumber(result)
  /\ UNCHANGED <<isNewNumber, error>>

\* the end of the try block of handleEqual: the result is shown
handleEqualResult(fullExpression, result) ==
  /\ equation' = fullExpression \o <<" ", "=", " ">>
  /\ display' = formatNumber(result)
  /\ isNewNumber' = TRUE
  /\ UNCHANGED error

\* the catch block without setEquation('')
handleEqualCatchKeepsEquation(message) ==
  /\ error' = message
  /\ display' = <<"0">>
  /\ isNewNumber' = TRUE
  /\ UNCHANGED equation

\* the catch block of handleEqual
handleEqualCatch(message) ==
  /\ error' = message
  /\ display' = <<"0">>
  /\ equation' = <<>>
  /\ isNewNumber' = TRUE

\* handleEqual after the calculation: its result is shown or its error caught
handleEqualEnd(fullExpression, result) ==
  IF result.ok
  THEN handleEqualResult(fullExpression, result.v)
  ELSE handleEqualCatch(result.msg)

\* handleEqual without the return on an empty equation
handleEqualNoReturn ==
  LET fullExpression == equation \o display
  IN  /\ handleEqualEnd(fullExpression, Calculation(fullExpression))
      /\ UNCHANGED <<memory, showMemory>>
      /\ evaluated' = (IF CallsEvaluator(fullExpression)
                       THEN fullExpression ELSE <<>>)

\* handleEqual()
handleEqual ==
  LET fullExpression == equation \o display
  IN  IF equation = <<>>
      THEN /\ UNCHANGED <<display, equation, error, isNewNumber, memory, showMemory>>
           /\ evaluated' = <<>>
      ELSE /\ handleEqualEnd(fullExpression, Calculation(fullExpression))
           /\ UNCHANGED <<memory, showMemory>>
           /\ evaluated' = (IF CallsEvaluator(fullExpression)
                            THEN fullExpression ELSE <<>>)

\* handleClear that also empties the memory register
handleClearAll ==
  /\ display' = <<"0">>
  /\ equation' = <<>>
  /\ error' = ""
  /\ isNewNumber' = TRUE
  /\ memory' = Zero
  /\ showMemory' = FALSE
  /\ evaluated' = <<>>

\* handleClear()
handleClear ==
  /\ display' = <<"0">>
  /\ equation' = <<>>
  /\ error' = ""
  /\ isNewNumber' = TRUE
  /\ UNCHANGED <<memory, showMemory>>
  /\ evaluated' = <<>>

\* handleBackspace without the case of a single character
handleBackspaceSliceOnly ==
  /\ error' = ""
  /\ IF display = <<"0">>
     THEN UNCHANGED <<display, isNewNumber>>
     ELSE /\ display' = DropLast(display)
          /\ UNCHANGED isNewNumber
  /\ UNCHANGED <<equation, memory, showMemory>>
  /\ evaluated' = <<>>

\* handleBackspace()
handleBackspace ==
  /\ error' = ""
  /\ IF display = <<"0">>
     THEN UNCHANGED <<display, isNewNumber>>
     ELSE IF Len(display) = 1
     THEN /\ display' = <<"0">>
          /\ isNewNumber' = TRUE
     ELSE /\ display' = DropLast(display)
          /\ UNCHANGED isNewNumber
  /\ UNCHANGED <<equation, memory, showMemory>>
  /\ evaluated' = <<>>

\* handleMemoryAdd without setShowMemory(true)
handleMemoryAddNoIndicator ==
  /\ memory' = Add(memory, parseFloat(display))
  /\ isNewNumber' = TRUE
  /\ UNCHANGED <<display, equation, error, showMemory>>
  /\ evaluated' = <<>>

\* handleMemoryAdd()
handleMemoryAdd ==
  /\ memory' = Add(memory, parseFloat(display))
  /\ showMemory' = TRUE
  /\ isNewNumber' = TRUE
  /\ UNCHANGED <<display, equation, error>>
  /\ evaluated' = <<>>

\* handleMemorySubtract()
handleMemorySubtract ==
  /\ memory' = Sub(memory, parseFloat(display))
  /\ showMemory' = TRUE
  /\ isNewNumber' = TRUE
  /\ UNCHANGED <<display, equation, error>>
  /\ evaluated' = <<>>

\* handleMemoryRecall()
handleMemoryRecall ==
  /\ IF ~IsZero(memory)
     THEN /\ display' = formatNumber(memory)
          /\ isNewNumber' = TRUE
     ELSE UNCHANGED <<display, isNewNumber>>
  /\ UNCHANGED <<equation, error, memory, showMemory>>
  /\ evaluated' = <<>>

\* handleMemoryClear()
handleMemoryClear ==
  /\ memory' = Zero
  /\ showMemory' = FALSE
  /\ UNCHANGED <<display, equation, error, isNewNumber>>
  /\ evaluated' = <<>>

\* useEffect(..., [display, equation]): the keydown listener is registered
\* anew, over the handlers of the new render, only when display or equation
\* changed
Rerender ==
  keyIsNewNumber' = (IF display' # display \/ equation' # equation
                     THEN isNewNumber' ELSE keyIsNewNumber)

\* ------------------------------------------------------------------------
\* Bounds of the model: which keys the user presses, and when
\* ------------------------------------------------------------------------

\* after the first operator, an operator is pressed while the equation it
\* makes has at most MaxEquation characters
MaxEquation == 12

\* = is pressed while the numerals of the expression have at most
\* MaxEvalDigits digits in all (the arithmetic of the model stays exact)
MaxEvalDigits == 6

\* %, M+ and M- are pressed while the numerals they read have at most
\* MaxOperandDigits digits
MaxOperandDigits == 1

\* M+ and M- are pressed while the register stays within 0..MaxMemory
MaxMemory == 1

\* a key that is no key of the calculator is pressed while the display has at
\* most MaxKeyed characters
MaxKeyed == 1

\* any number key is pressed while the display has fewer than MaxTyped
\* characters
MaxTyped == 2

\* the numerals the user types, key by key
TypedNumerals == { <<"0">>, <<"2">>, <<"3">>, <<"0", ".", "2">> }

\* the digit that fills a first numeral up to the cap
FillKey == "9"

NumberKeys == {"0", "2", "3", "."}

ArithmeticKeys == {"+", "-", "*", "/"}

ParenKeys == {"(", ")"}

IsPrefix(s, t) == Len(s) <= Len(t) /\ SubSeq(t, 1, Len(s)) = s

\* the number of decimal digits in s
Weight(s) == Len(SelectSeq(s, LAMBDA c : c \in DigitSet))

\* s is written with the characters the evaluator model covers
Covered(s) == \A i \in 1..Len(s) : s[i] \in DigitSet \cup OpChars \cup {".", " "}

\* s has no exponent part
Plain(s) == \A i \in 1..Len(s) : s[i] \notin {"e", "E"}

\* the part of s that parseFloat reads at most: it stops at the first
\* character that is no digit, point, sign or blank
Leading(s) == SubSeq(s, 1, PrefixLen(s, DigitSet \cup {".", "-", "+", " "}))

AtCap == Len(StripSeparators(display)) >= MAX_DIGITS

\* what the user means the display to show after key t
Intended(t, closureIsNewNumber) ==
  IF closureIsNewNumber THEN (IF t = "." THEN <<"0", ".">> ELSE <<t>>)
  ELSE Append(display, t)

\* a number key is pressed to type one of the numerals, on a display at the
\* cap, or (the point) on a display that has a point
CanType(t, closureIsNewNumber) ==
  \/ \E n \in TypedNumerals : IsPrefix(Intended(t, closureIsNewNumber), n)
  \/ AtCap
  \/ t = "." /\ Includes(display, ".")

\* the fill digit is typed on a first numeral made of fill digits only
CanFill(closureIsNewNumber) ==
  /\ equation = <<>>
  /\ closureIsNewNumber \/ \A i \in 1..Len(display) : display[i] = FillKey

\* the first operator, or one that fits the equation with the display and
\* its two blanks
CanOperate(op) ==
  \/ equation = <<>>
  \/ Len(equation) + Len(display) + 3 <= MaxEquation

CanEvaluate ==
  \/ equation = <<>>
  \/ /\ Covered(equation \o display)
     /\ Weight(equation \o display) <= MaxEvalDigits

CanPercent ==
  /\ Plain(display)
  /\ Plain(FirstField(equation))
  /\ Weight(Leading(display)) <= MaxOperandDigits
  /\ Weight(Leading(FirstField(equation))) <= MaxOperandDigits

\* the register holds whole numbers within the range, or no number
InMemoryRange(x) == x.k # "fin" \/ (x.d = 1 /\ x.s = 1 /\ x.n <= MaxMemory)

CanMemory ==
  /\ Plain(display)
  /\ Weight(Leading(display)) <= MaxOperandDigits

\* ------------------------------------------------------------------------
\* Events: the keypad buttons (onClick) and the keydown listener
\* ------------------------------------------------------------------------

Init ==
  /\ display = <<"0">>
  /\ equation = <<>>
  /\ error = ""
  /\ isNewNumber = TRUE
  /\ memory = Zero
  /\ showMemory = FALSE
  /\ keyIsNewNumber = TRUE
  /\ evaluated = <<>>
  /\ last = Event("init", <<>>, "", TRUE)
  /\ entered = <<>>

\* onClick={() => handleNumber(num.toString())}, onClick={() => handleNumber('.')}
ClickNumber(keys) ==
  \E t \in keys :
    /\ CanType(t, isNewNumber)
    /\ handleNumber(<<t>>, isNewNumber)
    /\ Rerender
    /\ Record("number", <<t>>, "click")

\* a number button pressed on a short display, whatever numeral it makes
ClickDigit(keys) ==
  \E t \in keys :
    /\ Len(display) < MaxTyped
    /\ handleNumber(<<t>>, isNewNumber)
    /\ Rerender
    /\ Record("number", <<t>>, "click")

\* the digit button that fills the numeral
ClickFill ==
  /\ CanFill(isNewNumber)
  /\ handleNumber(<<FillKey>>, isNewNumber)
  /\ Rerender
  /\ Record("number", <<FillKey>>, "click")

\* onClick={() => handleOperator('+')} and the like
ClickOperator(ops) ==
  \E op \in ops :
    /\ CanOperate(op)
    /\ handleOperator(<<op>>)
    /\ Rerender
    /\ Record("operator", <<op>>, "click")

\* onClick={handlePercent}
ClickPercent ==
  /\ CanPercent
  /\ handlePercent
  /\ Rerender
  /\ Record("percent", <<>>, "click")

\* onClick={handleEqual}
ClickEqual ==
  /\ CanEvaluate
  /\ handleEqual
  /\ Rerender
  /\ Record("equal", <<>>, "click")

\* onClick={handleClear}
ClickClear ==
  /\ handleClear
  /\ Rerender
  /\ Record("clear", <<>>, "click")

\* onClick={handleBackspace}
ClickBackspace ==
  /\ handleBackspace
  /\ Rerender
  /\ Record("backspace", <<>>, "click")

\* onClick={handleMemoryAdd}
ClickMemoryAdd ==
  /\ CanMemory
  /\ handleMemoryAdd
  /\ InMemoryRange(memory')
  /\ Rerender
  /\ Record("memoryAdd", <<>>, "click")

\* onClick={handleMemorySubtract}
ClickMemorySubtract ==
  /\ CanMemory
  /\ handleMemorySubtract
  /\ InMemoryRange(memory')
  /\ Rerender
  /\ Record("memorySubtract", <<>>, "click")

\* onClick={handleMemoryRecall}
ClickMemoryRecall ==
  /\ handleMemoryRecall
  /\ Rerender
  /\ Record("memoryRecall", <<>>, "click")

\* onClick={handleMemoryClear}
ClickMemoryClear ==
  /\ handleMemoryClear
  /\ Rerender
  /\ Record("memoryClear", <<>>, "click")

\* the keys of the keyboard, by KeyboardEvent.key
KeyEnter == <<"E", "n", "t", "e", "r">>

KeyEscape == <<"E", "s", "c", "a", "p", "e">>

KeyBackspace == <<"B", "a", "c", "k", "s", "p", "a", "c", "e">>

\* e.key.match(/[...]/): some character of key is in set
Matches(key, set) == \E i \in 1..Len(key) : key[i] \in set

\* handleKeyPress(e), with the handlers of the render that registered it
handleKeyPress(key) ==
  IF Matches(key, DigitSet \cup {"."}) THEN handleNumber(key, keyIsNewNumber)
  ELSE IF Matches(key, {"-", "+", "*", "/"}) THEN handleOperator(key)
  ELSE IF key = KeyEnter THEN handleEqual
  ELSE IF key = KeyEscape THEN handleClear
  ELSE IF key = KeyBackspace THEN handleBackspace
  ELSE IF key = <<"%">> THEN handlePercent
  ELSE UNCHANGED state /\ evaluated' = <<>>

\* window.addEventListener('keydown', handleKeyPress): a number key
KeyNumber(keys) ==
  \E t \in keys :
    /\ CanType(t, keyIsNewNumber)
    /\ handleKeyPress(<<t>>)
    /\ Rerender
    /\ Record("number", <<t>>, "key")

\* an operator key
KeyOperator(ops) ==
  \E op \in ops :
    /\ CanOperate(op)
    /\ handleKeyPress(<<op>>)
    /\ Rerender
    /\ Record("operator", <<op>>, "key")

\* Enter, Escape, Backspace and %
KeyCommand ==
  \E key \in {KeyEnter, KeyEscape, KeyBackspace, <<"%">>} :
    /\ key = KeyEnter => CanEvaluate
    /\ key = <<"%">> => CanPercent
    /\ handleKeyPress(key)
    /\ Rerender
    /\ Record(CASE key = KeyEnter -> "equal"
                [] key = KeyEscape -> "clear"
                [] key = KeyBackspace -> "backspace"
                [] OTHER -> "percent", <<>>, "key")

\* keys that are none of the calculator's: F1, F10, Shift, a
OtherKeys ==
  { <<"F", "1">>, <<"F", "1", "0">>, <<"S", "h", "i", "f", "t">>, <<"a">> }

\* a key that is none of the calculator's
KeyOther ==
  \E key \in OtherKeys :
    /\ Len(display) <= MaxKeyed
    /\ handleKeyPress(key)
    /\ Rerender
    /\ Record("other", key, "key")

\* the keys of the specifications with more kinds of event
FewNumberKeys == {"0", "2", "."}

FewOperatorKeys == {"/"}

SomeOperatorKeys == {"+", "/", "(", ")"}

\* the calculator proper, by its buttons
Next ==
  \/ ClickNumber(FewNumberKeys)
  \/ ClickOperator(SomeOperatorKeys)
  \/ ClickEqual
  \/ ClickClear
  \/ ClickBackspace

Spec == Init /\ [][Next]_vars

\* calculations: numerals, the four arithmetic operators, =, clear
NextCalculation ==
  \/ ClickNumber(NumberKeys)
  \/ ClickOperator(ArithmeticKeys)
  \/ ClickEqual
  \/ ClickClear

SpecCalculation == Init /\ [][NextCalculation]_vars

\* entering numerals: digits up to the cap, the point, operators, backspace, clear
NextEntry ==
  \/ ClickNumber(NumberKeys)
  \/ ClickDigit(NumberKeys)
  \/ ClickFill
  \/ ClickOperator(FewOperatorKeys)
  \/ ClickBackspace
  \/ ClickClear

SpecEntry == Init /\ [][NextEntry]_vars

\* every button, with fewer keys
NextMemory ==
  \/ ClickNumber(FewNumberKeys)
  \/ ClickOperator(FewOperatorKeys)
  \/ ClickPercent
  \/ ClickEqual
  \/ ClickClear
  \/ ClickBackspace
  \/ ClickMemoryAdd
  \/ ClickMemorySubtract
  \/ ClickMemoryRecall
  \/ ClickMemoryClear

SpecMemory == Init /\ [][NextMemory]_vars

\* the keyboard next to the buttons, with fewer keys
NextKeyboard ==
  \/ KeyNumber(FewNumberKeys)
  \/ KeyOperator(FewOperatorKeys)
  \/ KeyCommand
  \/ ClickNumber(FewNumberKeys)
  \/ ClickOperator(FewOperatorKeys)
  \/ ClickEqual
  \/ ClickClear
  \/ ClickBackspace

SpecKeyboard == Init /\ [][NextKeyboard]_vars

\* the keyboard alone, with the keys that are none of the calculator's
NextKeys ==
  \/ KeyNumber(FewNumberKeys)
  \/ KeyOperator(FewOperatorKeys)
  \/ KeyCommand
  \/ KeyOther

SpecKeys == Init /\ [][NextKeys]_vars

\* the keys of results that are shown with a separator or a sign
ShownNumberKeys == {"2", "3"}

ShownOperatorKeys == {"*", "-"}

\* formatted results under percent and the memory buttons
NextShown ==
  \/ ClickNumber(ShownNumberKeys)
  \/ ClickFill
  \/ ClickOperator(ShownOperatorKeys)
  \/ ClickEqual
  \/ ClickClear
  \/ ClickPercent
  \/ ClickMemoryAdd
  \/ ClickMemorySubtract
  \/ ClickMemoryRecall
  \/ ClickMemoryClear

SpecShown == Init /\ [][NextShown]_vars

\* ------------------------------------------------------------------------
\* Properties
\* ------------------------------------------------------------------------

\* a numeral written out: a digit first, digits and at most one point
IsNumeral(s) ==
  /\ s # <<>>
  /\ s[1] \in DigitSet
  /\ \A i \in 1..Len(s) : s[i] \in DigitSet \cup {"."}
  /\ Count(s, ".") <= 1

\* the keys entered, read as numeral a, operator op, numeral b, =
EnteredA == SubSeq(entered, 1, PrefixLen(entered, DigitSet \cup {"."}))

EnteredOp == entered[Len(EnteredA) + 1]

EnteredB == SubSeq(entered, Len(EnteredA) + 2, Len(entered) - 1)

CalculationEntered ==
  /\ entered # Untracked
  /\ entered # <<>>
  /\ entered[Len(entered)] = "="
  /\ Len(EnteredA) + 2 < Len(entered)
  /\ IsNumeral(EnteredA)
  /\ EnteredOp \in ArithmeticKeys
  /\ IsNumeral(EnteredB)

\* a op b in floating point
Apply(op, x, y) ==
  CASE op = "+" -> Add(x, y)
    [] op = "-" -> Sub(x, y)
    [] op = "*" -> Mul(x, y)
    [] OTHER -> Div(x, y)

EnteredValue == Apply(EnteredOp, parseFloat(EnteredA), parseFloat(EnteredB))

\* C1: from the initial or cleared state, the keys of a numeral a, one
\* operator op of + - * /, the keys of a numeral b and then = leave the
\* display equal to the formatted value of a op b, the equation equal to
\* "a op b = " and new-number mode armed, whenever that value is finite.
C1_Calculation ==
  (CalculationEntered /\ EnteredValue.k = "fin") =>
    /\ display = formatNumber(EnteredValue)
    /\ equation = EnteredA \o <<" ", EnteredOp, " ">> \o EnteredB \o <<" ", "=", " ">>
    /\ isNewNumber

\* 2 + 3 = has been entered and the display shows 5
C1_Witness ==
  /\ entered = <<"2", "+", "3", "=">>
  /\ display = <<"5">>
  /\ equation = <<"2", " ", "+", " ", "3", " ", "=", " ">>

\* the state every failure of handleEqual leaves
ErrorState ==
  /\ display = <<"0">>
  /\ equation = <<>>
  /\ isNewNumber
  /\ error # ""

\* the reasons for which the try block of handleEqual throws
EvaluateFails(fullExpression) ==
  \/ Count(fullExpression, "(") # Count(fullExpression, ")")
  \/ DoubledOperator(fullExpression)
  \/ ~mathEvaluate(fullExpression).ok
  \/ ~isValidNumber(mathEvaluate(fullExpression).v)

\* C2: whenever evaluate fails (mismatched parentheses, doubled operators,
\* the evaluator throws, or the result is not a finite number in range), the
\* next state has display "0", equation "", new-number mode armed and a
\* non-empty error message.
C2_FailureResets ==
  [][(/\ last'.ev = "equal"
      /\ equation # <<>>
      /\ EvaluateFails(equation \o display)) => ErrorState']_vars

\* a division by zero has just been evaluated: the result was out of range
C2_Witness ==
  /\ last.ev = "equal"
  /\ error = "Result out of range"
  /\ ErrorState

\* C3: evaluate on a full expression (equation + display) whose number of
\* "(" differs from its number of ")" ends in the error state (display "0",
\* equation "", error set), never in a displayed result.
C3_MismatchedParentheses ==
  [][(/\ last'.ev = "equal"
      /\ equation # <<>>
      /\ Count(equation \o display, "(") # Count(equation \o display, ")"))
     => (display' = <<"0">> /\ equation' = <<>> /\ error' # "")]_vars

\* an expression with an open parenthesis has just been evaluated
C3_Witness ==
  /\ last.ev = "equal"
  /\ error = "Mismatched parentheses"
  /\ display = <<"0">>
  /\ equation = <<>>

\* C4: the point key on a display that has a point changes neither display,
\* equation nor new-number mode, and in every reachable state the display has
\* at most one point.
C4_OnePoint ==
  /\ [](Count(display, ".") <= 1)
  /\ [][(/\ last'.ev = "number"
         /\ last'.arg = <<".">>
         /\ Includes(display, "."))
        => UNCHANGED <<display, equation, isNewNumber>>]_vars

\* the point key has just been pressed on a display that had a point
C4_Witness ==
  /\ last.ev = "number"
  /\ last.arg = <<".">>
  /\ ~last.took
  /\ Count(display, ".") = 1

\* the digits of s, in order
Digits(s) == SelectSeq(s, LAMBDA c : c \in DigitSet)

\* the first n characters of s
Take(s, n) == SubSeq(s, 1, IF Len(s) < n THEN Len(s) ELSE n)

\* the keys entered for the current numeral: those after the last operator
CurrentKeys ==
  LET ops == {i \in 1..Len(entered) : entered[i] \in ArithmeticKeys \cup ParenKeys}
  IN  IF ops = {} THEN entered
      ELSE From(entered, 1 + CHOOSE i \in ops : \A j \in ops : j <= i)

\* the numeral those keys spell: a point typed first stands for "0."
CurrentNumeral ==
  IF CurrentKeys # <<>> /\ Head(CurrentKeys) = "." THEN <<"0">> \o CurrentKeys
  ELSE CurrentKeys

\* C5: with digit, point, operator, backspace and clear buttons only, the
\* display holds the digits typed for the current numeral, in order, and at
\* most 16 characters besides commas and the point; a digit typed on a
\* display at the cap leaves the display unchanged.
C5_TypedDigits ==
  /\ [](Len(StripSeparators(display)) <= MAX_DIGITS)
  /\ []((entered # Untracked /\ Digits(CurrentKeys) # <<>>)
        => Digits(display) = Take(Digits(CurrentNumeral), MAX_DIGITS))
  /\ [][(last'.ev = "number" /\ AtCap) => display' = display]_vars

\* C6: when the previous action was an operator or a successful evaluate, a
\* number key t starts a fresh numeral: the display becomes t ("0." for the
\* point) whatever it held before, and new-number mode is disarmed.
C6_FreshNumeral ==
  [][(/\ \/ last.ev = "operator"
         \/ last.ev = "equal" /\ equation # <<>>
      /\ last'.ev = "number")
     => /\ display' = (IF last'.arg = <<".">> THEN <<"0", ".">> ELSE last'.arg)
        /\ isNewNumber' = FALSE]_vars

\* C7: in every reachable state, the expression handed to the evaluator holds
\* no "=", and so no text of a calculation that was already evaluated.
C7_NoHistoryEvaluated == ~Includes(evaluated, "=")

\* C8: backspace leaves display "0" as it is, removes exactly the last
\* character of a display of two or more, and turns a single character other
\* than "0" into "0" with new-number mode armed; equation and memory are
\* unchanged and the display is never left empty.
C8_Backspace ==
  [][last'.ev = "backspace" =>
       /\ display = <<"0">> => display' = <<"0">>
       /\ Len(display) >= 2 => display' = DropLast(display)
       /\ (Len(display) = 1 /\ display # <<"0">>) =>
            (display' = <<"0">> /\ isNewNumber')
       /\ equation' = equation
       /\ memory' = memory
       /\ display' # <<>>]_vars

\* backspace has just removed the last character, with a number in memory
C8_Witness ==
  /\ last.ev = "backspace"
  /\ last.took
  /\ Len(display) >= 2
  /\ ~IsZero(memory)
  /\ equation # <<>>

\* C9: whenever error is non-empty, the next input event of any kind (digit,
\* point, operator, backspace, percent, evaluate, clear or a memory key)
\* leaves error empty.
C9_ErrorTransient == [][error # "" => error' = ""]_vars

\* C10: clear (the AC button or Escape) yields display "0", equation "",
\* empty error and new-number mode armed, and a number key pressed next acts
\* as at start-up: it starts the numeral and disarms new-number mode.
C10_ClearIsFreshStart ==
  /\ [][last'.ev = "clear" =>
          /\ display' = <<"0">>
          /\ equation' = <<>>
          /\ error' = ""
          /\ isNewNumber']_vars
  /\ [][(last.ev = "clear" /\ last'.ev = "number") =>
          /\ display' = (IF last'.arg = <<".">> THEN <<"0", ".">> ELSE last'.arg)
          /\ isNewNumber' = FALSE]_vars

\* C11: after memory add and memory subtract operations, memory recall sets
\* the display to the formatted value of the register, whatever that value
\* is, and arms new-number mode.
C11_RecallShowsRegister ==
  [][(last'.ev = "memoryRecall" /\ showMemory) =>
       /\ display' = formatNumber(memory)
       /\ isNewNumber']_vars

\* the number a display shows to its reader: the separators grouping the
\* digits are no part of it
Shown(s) == parseFloat(SelectSeq(s, LAMBDA c : c # ","))

\* C12: memory add adds to the register, and memory subtract subtracts from
\* it, exactly the number the display shows, for typed numerals as well as
\* for formatted results with thousands separators or a minus sign.
C12_RegisterTakesShown ==
  /\ [][(last'.ev = "memoryAdd" /\ Shown(display).k = "fin")
        => memory' = Add(memory, Shown(display))]_vars
  /\ [][(last'.ev = "memorySubtract" /\ Shown(display).k = "fin")
        => memory' = Sub(memory, Shown(display))]_vars

\* the value the percent key is to show: the number on the display over 100,
\* or that percentage of the first operand of the equation
PercentOfShown ==
  IF equation = <<>>
  THEN Div(Shown(display), Hundred)
  ELSE Div(Mul(Shown(FirstField(equation)), Shown(display)), Hundred)

\* C13: percent with an empty equation sets the display to the value of the
\* display over 100, and with an equation to the first operand of the equation
\* times the value of the display over 100; equation and memory are unchanged.
C13_Percent ==
  [][(last'.ev = "percent" /\ PercentOfShown.k = "fin") =>
       /\ display' = formatNumber(PercentOfShown)
       /\ equation' = equation
       /\ memory' = memory]_vars

\* C14: an operator key sets the equation to the previous equation followed
\* by the display, a blank, the operator and a blank, arms new-number mode,
\* clears the error and leaves the memory register unchanged.
C14_AppendOperator ==
  [][last'.ev = "operator" =>
       /\ equation' = equation \o display \o <<" ">> \o last'.arg \o <<" ">>
       /\ isNewNumber'
       /\ error' = ""
       /\ memory' = memory]_vars

\* a second operator has just been appended, with a number in memory
C14_Witness ==
  /\ last.ev = "operator"
  /\ equation = <<"0", ".", "2", " ", "/", " ", "2", " ", "/", " ">>
  /\ ~IsZero(memory)
  /\ isNewNumber

\* C15: a keyboard event (a digit, the point, + - * /, Enter, Escape,
\* Backspace, %) produces exactly the next state that a click on the
\* corresponding button produces in the same state: the handler of the key
\* runs on the current display, equation and new-number mode.
C15_KeyAsButton ==
  [][(last'.via = "key" /\ last'.ev # "other") =>
       CASE last'.ev = "number" -> handleNumber(last'.arg, isNewNumber)
         [] last'.ev = "operator" -> handleOperator(last'.arg)
         [] last'.ev = "equal" -> handleEqual
         [] last'.ev = "clear" -> handleClear
         [] last'.ev = "backspace" -> handleBackspace
         [] OTHER -> handlePercent]_vars

\* C16: a key event whose key is none of the digits, the point, + - * /,
\* Enter, Escape, Backspace and % (F1, F10, Shift, a) changes no calculator
\* state, and what a key event appends to the display is a single digit or
\* the point.
C16_OtherKeysIgnored ==
  /\ [][(last'.via = "key" /\ last'.ev = "other") => UNCHANGED state]_vars
  /\ [][(/\ last'.via = "key"
         /\ Len(display') > Len(display)
         /\ IsPrefix(display, display'))
        => /\ Len(display') = Len(display) + 1
           /\ display'[Len(display')] \in DigitSet \cup {"."}]_vars

\* two operator keys were entered one right after the other
RepeatedOperator ==
  \E i \in 1..(Len(entered) - 1) :
    entered[i] \in ArithmeticKeys /\ entered[i + 1] \in ArithmeticKeys

\* C17: when an operator key is followed immediately by another operator key,
\* with no digit typed in between, the next evaluate ends in the error state
\* (display "0", equation "", error set) instead of displaying a result.
C17_RepeatedOperatorRejected ==
  (/\ entered # Untracked
   /\ entered # <<>>
   /\ entered[Len(entered)] = "="
   /\ RepeatedOperator) => ErrorState

\* x is no finite number strictly between -1e308 and 1e308
NoValueInRange(x) == x.k # "fin" \/ AtLeastPow10(x, MAX_VALUE_EXP)

\* C18: a calculation whose value is no finite number strictly between -1e308
\* and 1e308, in particular every division by zero (n / 0 and 0 / 0), never
\* shows a result: evaluate ends with display "0", equation "" and error set.
C18_NoValueNoResult ==
  /\ [][(/\ last'.ev = "equal"
         /\ equation # <<>>
         /\ CallsEvaluator(equation \o display)
         /\ mathEvaluate(equation \o display).ok
         /\ NoValueInRange(mathEvaluate(equation \o display).v))
        => ErrorState']_vars
  /\ []((/\ CalculationEntered
         /\ EnteredOp = "/"
         /\ IsZero(parseFloat(EnteredB)))
        => ErrorState)

\* 2 / 0 = has just been entered: no result is shown
C18_Witness ==
  /\ entered = <<"2", "/", "0", "=">>
  /\ display = <<"0">>
  /\ equation = <<>>
  /\ error = "Result out of range"

\* the equation after the history of the last result: what follows the last
\* "= " (the whole equation when it has none)
AfterHistory(eq) ==
  LET marks == {i \in 1..Len(eq) : eq[i] = "="}
  IN  IF marks = {} THEN eq
      ELSE From(eq, 2 + CHOOSE i \in marks : \A j \in marks : j <= i)

\* C19: after a successful evaluate, a calculation entered without clear (a
\* numeral or the result itself, an operator, a numeral, evaluate) succeeds
\* whenever it would succeed on its own, and displays its own value.
C19_NextCalculation ==
  [][(/\ last'.ev = "equal"
      /\ Includes(equation, "=")
      /\ AfterHistory(equation) # <<>>
      /\ Calculation(AfterHistory(equation) \o display).ok)
     => /\ error' = ""
        /\ display' = formatNumber(Calculation(AfterHistory(equation) \o display).v)]_vars

\* C20: evaluate with an empty equation is a no-op: display, equation, error,
\* new-number mode and memory are unchanged and the evaluator is not called.
C20_EvaluateNothing ==
  [][(last'.ev = "equal" /\ equation = <<>>) =>
       /\ UNCHANGED <<display, equation, error, isNewNumber, memory, showMemory>>
       /\ evaluated' = <<>>]_vars

\* = has just been pressed on a typed numeral with no equation, a number
\* being in memory
C20_Witness ==
  /\ last.ev = "equal"
  /\ ~last.took
  /\ equation = <<>>
  /\ display = <<"0", ".", "2">>
  /\ ~isNewNumber
  /\ ~IsZero(memory)

\* a numeral without a redundant leading zero: "0", or one that starts with
\* "0.", or one that starts with a digit other than 0
WellFormed(s) ==
  \/ s = <<"0">>
  \/ Len(s) >= 2 /\ s[1] = "0" /\ s[2] = "."
  \/ s # <<>> /\ s[1] \in DigitSet \ {"0"}

\* C21: in every state reached by digit, point, operator, backspace and clear
\* events, the display is a well-formed numeral without a redundant leading
\* zero (never "05" or "00").
C21_NoLeadingZero == WellFormed(display)

\* the events that write the memory register
RegisterEvents == {"memoryAdd", "memorySubtract", "memoryClear"}

\* C22: only memory add, memory subtract and memory clear change the memory
\* register (digit, operator, evaluate, backspace, percent, clear and memory
\* recall leave it unchanged), and no memory operation changes the equation.
C22_RegisterFrame ==
  /\ [][last'.ev \notin RegisterEvents => memory' = memory]_vars
  /\ [][last'.ev \in RegisterEvents \cup {"memoryRecall"}
        => equation' = equation]_vars

\* the register has just been recalled into the display, next to an equation
C22_Witness ==
  /\ last.ev = "memoryRecall"
  /\ last.took
  /\ ~IsZero(memory)
  /\ display = formatNumber(memory)
  /\ equation # <<>>

\* C23: a non-zero memory register implies that the memory indicator is
\* shown, and memory clear always sets the register to 0 and turns the
\* indicator off.
C23_Indicator ==
  /\ [](~IsZero(memory) => showMemory)
  /\ [][last'.ev = "memoryClear" => (IsZero(memory') /\ ~showMemory')]_vars

\* a number is in memory with the indicator on, and the value it was added
\* from is still on the display
C23_Witness ==
  /\ last.ev = "memoryAdd"
  /\ ~IsZero(memory)
  /\ memory = parseFloat(display)
  /\ showMemory

====
